---- MODULE Spec2Model ----
(***************************************************************************)
(* EmbeddedDependenciesWebpackPlugin: discovery of third-party packages    *)
(* through normalModuleFactory.hooks.module, enrichment of every retained  *)
(* package in processAssets, and emission of the inventory document and    *)
(* the optional license document.                                          *)
(*                                                                         *)
(* Strings whose order or concatenation matters (package names, versions,  *)
(* map keys) are sequences of UTF-16 code units.  Folder paths are         *)
(* sequences of path segments, a segment being a sequence of text pieces   *)
(* whose concatenation is the segment.  Other strings are opaque.          *)
(***************************************************************************)
EXTENDS Integers, Sequences, FiniteSets, TLC

\* ---------------------------------------------------------------- bounds
NumBuilds == 2
MaxEvents == 3
MaxSharedEvents == 2

Builds == 1..NumBuilds

\* ------------------------------------------------------------- constants
Undefined == "undefined"

\* An optional value that is no string: absent, or present with a value.
None == <<>>
Some(x) == <<x>>

PLUGIN_ERROR_PREFIX == "[embedded-dependencies-webpack-plugin]"
DEFAULT_GENERATED_LICENSE_FILE_NAME == "THIRD-PARTY-NOTICES.html"
DEFAULT_EMBEDDED_DEPENDENCIES_FILE_NAME == "embedded-dependencies.json"

AT_SIGN == 64

\* ------------------------------------------------------- input alphabets
\* Package names "a" and "ab", versions "1" and "2", as code units.
NameA == <<97>>
NameAB == <<97, 98>>
Version1 == <<49>>
Version2 == <<50>>

\* IPackageData values read from package.json files.  licenses is absent, a
\* string or an array of {type, url}; author is absent, a string or an object.
NoLicenses == [kind |-> "undefined"]
NoAuthor == [kind |-> "undefined"]

PkgA1 ==
  [name |-> NameA, version |-> Version1, license |-> "MIT", licenses |-> NoLicenses,
   author |-> [kind |-> "string", text |-> "Jane Doe"]]
PkgA1Alt ==
  [name |-> NameA, version |-> Version1, license |-> Undefined,
   licenses |-> [kind |-> "array",
                 items |-> << [type |-> "MIT", url |-> "u1"],
                              [type |-> "Apache-2.0", url |-> "u2"] >>],
   author |-> [kind |-> "object", name |-> "Bob"]]
PkgA2 ==
  [name |-> NameA, version |-> Version2, license |-> "ISC", licenses |-> NoLicenses,
   author |-> NoAuthor]
PkgAB1 ==
  [name |-> NameAB, version |-> Version1, license |-> Undefined, licenses |-> NoLicenses,
   author |-> NoAuthor]

\* descriptionFileRoot values.  '' is the path without segments.
EmptyPath == <<>>
PathSrc == << <<"proj">>, <<"src">> >>
PathNmA == << <<"proj">>, <<"node_modules">>, <<"a">> >>
PathNmB == << <<"proj">>, <<"node_modules">>, <<".pnpm">>, <<"a">> >>
PathNmOld == << <<"proj">>, <<"node_modules", "_old">>, <<"a">> >>

\* The moduleCreateData values the host passes to the module hook.  accept
\* is what a user-supplied packageFilterPredicate answers for the event.
ModuleEvents ==
  { [hasResolveData |-> FALSE, pkg |-> None, filePath |-> None, accept |-> TRUE],
    [hasResolveData |-> TRUE, pkg |-> None, filePath |-> Some(PathNmA), accept |-> TRUE],
    [hasResolveData |-> TRUE, pkg |-> Some(PkgA1), filePath |-> None, accept |-> TRUE],
    [hasResolveData |-> TRUE, pkg |-> Some(PkgA1), filePath |-> Some(EmptyPath), accept |-> TRUE],
    [hasResolveData |-> TRUE, pkg |-> Some(PkgA2), filePath |-> Some(PathSrc), accept |-> TRUE],
    [hasResolveData |-> TRUE, pkg |-> Some(PkgA2), filePath |-> Some(PathNmA), accept |-> FALSE],
    [hasResolveData |-> TRUE, pkg |-> Some(PkgA1), filePath |-> Some(PathNmA), accept |-> TRUE],
    [hasResolveData |-> TRUE, pkg |-> Some(PkgA1Alt), filePath |-> Some(PathNmB), accept |-> TRUE],
    [hasResolveData |-> TRUE, pkg |-> Some(PkgA2), filePath |-> Some(PathNmA), accept |-> TRUE],
    [hasResolveData |-> TRUE, pkg |-> Some(PkgAB1), filePath |-> Some(PathNmB), accept |-> TRUE],
    [hasResolveData |-> TRUE, pkg |-> Some(PkgAB1), filePath |-> Some(PathNmOld), accept |-> TRUE] }

\* IEmbeddedDependenciesWebpackPluginOptions values given to the constructor.
NoOptions ==
  [outputFileName |-> Undefined, generateLicenseFile |-> None,
   generateLicenseFileFunction |-> Undefined, generatedLicenseFilename |-> Undefined,
   packageFilterPredicate |-> Undefined]

OptionChoices ==
  { NoOptions,
    [NoOptions EXCEPT !.generateLicenseFile = Some(TRUE)],
    [NoOptions EXCEPT !.outputFileName = "custom-file-name.json",
                      !.generateLicenseFile = Some(FALSE),
                      !.generateLicenseFileFunction = "custom",
                      !.packageFilterPredicate = "custom"],
    [NoOptions EXCEPT !.outputFileName = "",
                      !.generateLicenseFile = Some(TRUE),
                      !.generateLicenseFileFunction = "custom",
                      !.generatedLicenseFilename = "custom-license-file-name.html"] }

\* Values a throw statement can carry: a string, an Error, anything else.
ThrownByTemplate ==
  { [type |-> "string", text |-> "bad template"],
    [type |-> "Error", message |-> "bad template", stack |-> "Error: bad template at ..."],
    [type |-> "other", json |-> "{\"code\":1}"] }

\* Errors of the file system are Error instances.
ThrownByFileSystem ==
  { [type |-> "Error", message |-> "ENOENT", stack |-> "Error: ENOENT at ..."] }

\* Directory listings and file texts the file system can answer with.
Listings == { <<>>, <<"index.js", "LICENSE", "LICENSE.txt">> }
FileTexts ==
  { <<"Copyright (c) 2020 Acme Corp", "MIT License text...">>,
    <<"MIT License text...">> }

VARIABLES
  scheduled,           \* the builds the host runs with this plugin instance
  options,             \* the options the plugin instance was constructed with
  phase,               \* per build: "idle", "make", "seal" or "done"
  thirdPartyPackages,  \* per build: the Map created by thisCompilation
  packages,            \* per build: the packages array of processAssets
  operations,          \* per build: the started per-entry callbacks, in map order
  promise,             \* per build: the promise of Async.forEachAsync
  assets,              \* per build: the compilation.emitAsset calls, in order
  errors,              \* per build: compilation.errors
  eventsLeft,          \* module events the host may still deliver
  lastEvent,           \* history: the module event of the step just taken, if it was one
  firstSeen,           \* history, per build: key -> value of the first retained event
  lastSeen,            \* history, per build: key -> value of the last retained event
  atRejection,         \* history, per build: packages when forEachAsync rejected
  generatorCall,       \* history, per build: what the call of the license generator did
  call,                \* one application of a helper function: its input, position, output
  cli,                 \* one run of the command-line parser with an alias action registered
  loader               \* one call of tryLoadWebpackConfigurationAsync

vars == <<scheduled, options, phase, thirdPartyPackages, packages, operations, promise, assets,
          errors, eventsLeft, lastEvent, firstSeen, lastSeen, atRejection,
          generatorCall, call, cli, loader>>

\* The state of the plugin and its builds.
pluginVars == <<scheduled, options, phase, thirdPartyPackages, packages, operations, promise,
                assets, errors, eventsLeft, lastEvent, firstSeen, lastSeen, atRejection,
                generatorCall>>

\* A component that takes no part in the run at hand.
Unused == [pc |-> "unused"]

\* ------------------------------------------------------------ constructor
\* Mutant: the constructor without the default name.
OutputFileNameNoDefault(o) == o.outputFileName

OutputFileName(o) ==
  IF o.outputFileName \in {Undefined, ""}
    THEN DEFAULT_EMBEDDED_DEPENDENCIES_FILE_NAME ELSE o.outputFileName

\* Mutant: the license file is generated whatever the option says.
GenerateLicenseFileAlways(o) == TRUE

GenerateLicenseFile(o) ==
  IF o.generateLicenseFile \in {None, Some(FALSE)} THEN FALSE ELSE TRUE

GenerateLicenseFileFunction(o) ==
  IF o.generateLicenseFileFunction = Undefined
    THEN "_defaultLicenseFileGenerator" ELSE o.generateLicenseFileFunction

GeneratedLicenseFilename(o) ==
  IF o.generatedLicenseFilename \in {Undefined, ""}
    THEN DEFAULT_GENERATED_LICENSE_FILE_NAME ELSE o.generatedLicenseFilename

\* _packageFilterFunction(pkg, filePath): the default accepts everything, a
\* user predicate answers what the event carries in accept.
PackageFilterFunction(o, ev) ==
  IF o.packageFilterPredicate = Undefined THEN TRUE ELSE ev.accept

\* ---------------------------------------------------------------- strings
Min(a, b) == IF a < b THEN a ELSE b

\* x < y on JavaScript strings: the first differing code unit decides, a
\* proper prefix is smaller.
StringLess(x, y) ==
  \/ \E i \in 1..Min(Len(x), Len(y)) :
       /\ x[i] < y[i]
       /\ \A j \in 1..(i - 1) : x[j] = y[j]
  \/ /\ Len(x) < Len(y)
     /\ \A j \in 1..Len(x) : x[j] = y[j]

\* filePath.includes('node_modules'): the searched text has no separator, so
\* it occurs in the path exactly when it occurs inside one segment.
IncludesNodeModules(filePath) ==
  \E i \in 1..Len(filePath) : \E j \in 1..Len(filePath[i]) :
    filePath[i][j] = "node_modules"

makePackageMapKeyForPackage(pkg) == pkg.name \o <<AT_SIGN>> \o pkg.version

\* ------------------------------------------------------ the package table
\* A Map is a sequence of [key, value] entries in insertion order.
NewMap == <<>>

MapKeys(m) == { m[i].key : i \in 1..Len(m) }

MapHas(m, k) == k \in MapKeys(m)

MapGet(m, k) == m[CHOOSE i \in 1..Len(m) : m[i].key = k].value

\* Mutant: every set appends an entry.
MapSetAppend(m, k, v) == Append(m, [key |-> k, value |-> v])

\* Mutant: set only when the key is new (the first value stays).
MapSetFirstWins(m, k, v) ==
  IF MapHas(m, k) THEN m ELSE Append(m, [key |-> k, value |-> v])

\* Map.prototype.set: an existing key keeps its position and gets the new
\* value, a new key is appended.
MapSet(m, k, v) ==
  IF MapHas(m, k)
    THEN [i \in 1..Len(m) |-> IF m[i].key = k THEN [key |-> k, value |-> v] ELSE m[i]]
    ELSE Append(m, [key |-> k, value |-> v])

\* The condition of the if statement in the module hook.
IsRetained(o, ev) ==
  /\ ev.hasResolveData
  /\ ev.pkg # None
  /\ ev.filePath \notin {None, Some(EmptyPath)}
  /\ PackageFilterFunction(o, ev)
  /\ IncludesNodeModules(ev.filePath[1])

\* The module hook's effect on the map it closes over.
ObserveModule(o, m, ev) ==
  IF IsRetained(o, ev)
    THEN MapSet(m, makePackageMapKeyForPackage(ev.pkg[1]),
                [packageFolderPath |-> ev.filePath[1], packageJsonData |-> ev.pkg[1]])
    ELSE m

\* Mutant: one map for all builds of the plugin instance.
CapturedMapShared(b) == CHOOSE c \in Builds : \A d \in Builds : c <= d

\* The map a build's hooks close over: the one created by the
\* thisCompilation callback of that build.
CapturedMap(b) == b

\* ------------------------------------------------------------- enrichment
\* Array.prototype.join: the elements with the separator between them.
RECURSIVE Join(_, _)
Join(elements, separator) ==
  IF Len(elements) = 0 THEN <<>>
  ELSE IF Len(elements) = 1 THEN <<elements[1]>>
  ELSE <<elements[1], separator>> \o Join(Tail(elements), separator)

\* Mutant: the joined types without the parentheses around them.
JoinOrBare(types) == Join(types, " OR ")

\* `(${types.join(' OR ')})`
JoinOr(types) == <<"(">> \o Join(types, " OR ") \o <<")">>

\* parseLicense.  A string is the sequence of its pieces; the joined form
\* keeps the types in order between the parentheses, " OR " between them.
parseLicense(packageData) ==
  IF packageData.license \notin {Undefined, ""}
    THEN <<packageData.license>>
  ELSE IF packageData.licenses.kind = "string"
    THEN <<packageData.licenses.text>>
  ELSE IF packageData.licenses.kind = "array" /\ Len(packageData.licenses.items) > 0
    THEN IF Len(packageData.licenses.items) = 1
           THEN <<packageData.licenses.items[1].type>>
           ELSE JoinOr([i \in 1..Len(packageData.licenses.items) |->
                          packageData.licenses.items[i].type])
  ELSE None

parsePackageAuthor(p) ==
  IF p.author.kind = "string" THEN p.author.text
  ELSE IF p.author.kind = "object" THEN p.author.name
  ELSE Undefined

\* LICENSE_FILES_REGEXP.test(file)
LICENSE_FILES == {"LICENSE", "LICENSE.md", "LICENSE.txt", "LICENSE-MIT", "COPYING",
                  "license", "License.md", "licence"}
IsLicenseFile(file) == file \in LICENSE_FILES

\* COPYRIGHT_REGEX matches inside one line of the text.
COPYRIGHT_LINES == {"Copyright (c) 2020 Acme Corp", "Copyright 2019 Other"}
IsCopyrightLine(line) == line \in COPYRIGHT_LINES

\* Mutant: the last matching file of the listing.
GetLicenseFilePathLast(modulePath, files) ==
  LET matching == SelectSeq(files, IsLicenseFile)
  IN IF Len(matching) = 0 THEN None
     ELSE Some(Append(modulePath, <<matching[Len(matching)]>>))

\* _getLicenseFilePathAsync after readdir answered with files: the first
\* file matching the pattern, joined to the folder path.
GetLicenseFilePath(modulePath, files) ==
  LET matching == SelectSeq(files, IsLicenseFile)
  IN IF Len(matching) = 0 THEN None ELSE Some(Append(modulePath, <<matching[1]>>))

\* _parseCopyright: the first match in the text.
ParseCopyright(licenseSource) ==
  LET matches == SelectSeq(licenseSource, IsCopyrightLine)
  IN IF Len(matches) = 0 THEN Undefined ELSE matches[1]

OrElse(x, y) == IF x \in {Undefined, ""} THEN y ELSE x

\* Mutant: the author of the descriptor goes before the license text.
RecordWithSourceAuthorFirst(data, licenseSource) ==
  [name |-> data.name, version |-> data.version, license |-> parseLicense(data),
   licenseSource |-> licenseSource,
   copyright |-> OrElse(parsePackageAuthor(data), ParseCopyright(licenseSource))]

\* The record pushed when a license file was found and read.
RecordWithSource(data, licenseSource) ==
  [name |-> data.name, version |-> data.version, license |-> parseLicense(data),
   licenseSource |-> licenseSource,
   copyright |-> OrElse(ParseCopyright(licenseSource), parsePackageAuthor(data))]

\* The record pushed when the folder has no license file.
RecordWithoutSource(data) ==
  [name |-> data.name, version |-> data.version, license |-> parseLicense(data),
   copyright |-> parsePackageAuthor(data)]

\* -------------------------------------------------------------- reporting
\* Sort.compareByValue on two strings.
CompareByValue(x, y) ==
  IF x = y THEN 0 ELSE IF StringLess(x, y) THEN -1 ELSE 1

\* Where a stable sort puts x in an already sorted array: after every
\* element that does not compare greater.
RECURSIVE InsertSorted(_, _)
InsertSorted(sorted, x) ==
  IF sorted = <<>> THEN <<x>>
  ELSE IF CompareByValue(x.name, sorted[Len(sorted)].name) >= 0
    THEN Append(sorted, x)
    ELSE Append(InsertSorted(SubSeq(sorted, 1, Len(sorted) - 1), x), sorted[Len(sorted)])

\* Sort.sortBy(array, pkg => pkg.name)
RECURSIVE SortBy(_)
SortBy(array) ==
  IF array = <<>> THEN <<>>
  ELSE InsertSorted(SortBy(SubSeq(array, 1, Len(array) - 1)), array[Len(array)])

\* Mutant: the sort at the end of the try block, skipped by a throw.
FinallySortOnlyOnSuccess(array, rejected) == IF rejected THEN array ELSE SortBy(array)

\* Mutant: the records collected so far are dropped when forEachAsync threw.
FinallySortDropPartial(array, rejected) == IF rejected THEN <<>> ELSE SortBy(array)

\* The finally block: the array is sorted whether or not forEachAsync threw.
FinallySort(array, rejected) == SortBy(array)

\* JSON.stringify of one record: properties whose value is undefined are
\* left out.
StringifyRecord(r) ==
  LET present == { f \in DOMAIN r :
                     /\ (f = "license") => r[f] # None
                     /\ (f = "copyright") => r[f] # Undefined }
  IN [f \in present |-> r[f]]

\* JSON.stringify({ embeddedDependencies: packages })
StringifyInventory(array) ==
  [embeddedDependencies |-> [i \in 1..Len(array) |-> StringifyRecord(array[i])]]

\* _emitWebpackError: the message pushed to compilation.errors, as the
\* sequence of the pieces of its template string.
WebpackErrorMessage(errorMessage, error) ==
  IF error.type = "string"
    THEN <<PLUGIN_ERROR_PREFIX, ": ", errorMessage, ": ", error.text>>
  ELSE IF error.type = "Error"
    THEN <<PLUGIN_ERROR_PREFIX, ": ", errorMessage, ": ", error.message, "\n",
           OrElse(error.stack, "")>>
  ELSE <<PLUGIN_ERROR_PREFIX, ": ", errorMessage, ": ", error.json>>

EmitWebpackError(compilationErrors, errorMessage, error) ==
  Append(compilationErrors, WebpackErrorMessage(errorMessage, error))

\* compilation.emitAsset(file, source)
EmitAsset(compilationAssets, file, source) ==
  Append(compilationAssets, [file |-> file, source |-> source])

\* _defaultLicenseFileGenerator: one block per package, joined by "\n".
LicenseContent(pkg) ==
  IF "licenseSource" \in DOMAIN pkg /\ pkg.licenseSource # <<>>
    THEN pkg.licenseSource
  ELSE <<OrElse(pkg.copyright, "License or Copyright not found")>>

DefaultLicenseFileGenerator(array) ==
  [i \in 1..Len(array) |->
     [hr |-> "<hr />", name |-> array[i].name, version |-> array[i].version,
      br |-> "<br /><br />", content |-> LicenseContent(array[i])]]

\* ---------------------------------------------------------- forEachAsync
NotStarted == [state |-> "none", reason |-> None]
Pending == [state |-> "pending", reason |-> None]
Resolved == [state |-> "resolved", reason |-> None]
Rejected(error) == [state |-> "rejected", reason |-> Some(error)]

\* Mutant: forEachAsync is not awaited.
IsSettledNoAwait(p) == TRUE

\* The await of processAssets continues once the promise is settled.
IsSettled(p) == p.state \in {"resolved", "rejected"}

\* reject(error) of forEachAsync: only the first settlement counts.
Reject(p, error) == IF p.state = "pending" THEN Rejected(error) ELSE p

\* ------------------------------------------------------------------ Init
InitOf(builds, events) ==
  /\ scheduled = builds
  /\ options \in OptionChoices
  /\ phase = [b \in Builds |-> "idle"]
  /\ thirdPartyPackages = [b \in Builds |-> NewMap]
  /\ packages = [b \in Builds |-> <<>>]
  /\ operations = [b \in Builds |-> <<>>]
  /\ promise = [b \in Builds |-> NotStarted]
  /\ assets = [b \in Builds |-> <<>>]
  /\ errors = [b \in Builds |-> <<>>]
  /\ eventsLeft = events
  /\ lastEvent = None
  /\ firstSeen = [b \in Builds |-> {}]
  /\ lastSeen = [b \in Builds |-> {}]
  /\ atRejection = [b \in Builds |-> None]
  /\ generatorCall = [b \in Builds |-> None]
  /\ call = Unused
  /\ cli = Unused
  /\ loader = Unused

\* One build.
Init == InitOf({1}, MaxEvents)

\* Builds that may overlap, sharing the plugin instance.
InitBuilds == InitOf(Builds, MaxSharedEvents)

\* --------------------------------------------------------------- actions
\* compiler.hooks.thisCompilation: a compilation starts with a new Map.
ThisCompilation(b) ==
  /\ b \in scheduled
  /\ phase[b] = "idle"
  /\ phase' = [phase EXCEPT ![b] = "make"]
  /\ thirdPartyPackages' = [thirdPartyPackages EXCEPT ![CapturedMap(b)] = NewMap]
  /\ lastEvent' = None
  /\ UNCHANGED <<call, cli, loader>>
  /\ UNCHANGED <<scheduled, options, generatorCall, packages, operations, promise, assets, errors, eventsLeft,
                 firstSeen, lastSeen, atRejection>>

\* normalModuleFactory.hooks.module of build b receives ev.
ModuleHook(b, ev) ==
  /\ phase[b] = "make"
  /\ eventsLeft > 0
  /\ eventsLeft' = eventsLeft - 1
  /\ thirdPartyPackages' =
       [thirdPartyPackages EXCEPT
          ![CapturedMap(b)] = ObserveModule(options, thirdPartyPackages[CapturedMap(b)], ev)]
  /\ lastEvent' = Some([build |-> b, event |-> ev])
  /\ IF IsRetained(options, ev)
       THEN LET k == makePackageMapKeyForPackage(ev.pkg[1])
                v == [packageFolderPath |-> ev.filePath[1], packageJsonData |-> ev.pkg[1]]
            IN /\ firstSeen' =
                    [firstSeen EXCEPT ![b] =
                       IF \E e \in @ : e[1] = k THEN @ ELSE @ \cup {<<k, v>>}]
               /\ lastSeen' =
                    [lastSeen EXCEPT ![b] = {e \in @ : e[1] # k} \cup {<<k, v>>}]
       ELSE UNCHANGED <<firstSeen, lastSeen>>
  /\ UNCHANGED <<call, cli, loader>>
  /\ UNCHANGED <<scheduled, options, generatorCall, phase, packages, operations, promise, assets, errors,
                 atRejection>>

\* compilation.hooks.processAssets calls the tap: the packages array is
\* created and forEachAsync is called on the map.
ProcessAssets(b) ==
  /\ phase[b] = "make"
  /\ phase' = [phase EXCEPT ![b] = "seal"]
  /\ packages' = [packages EXCEPT ![b] = <<>>]
  /\ operations' = [operations EXCEPT ![b] = <<>>]
  /\ promise' = [promise EXCEPT ![b] = Pending]
  /\ lastEvent' = None
  /\ UNCHANGED <<call, cli, loader>>
  /\ UNCHANGED <<scheduled, options, generatorCall, thirdPartyPackages, assets, errors, eventsLeft, firstSeen, lastSeen, atRejection>>

\* forEachAsync takes the next entry of the map and calls the callback with
\* it; the callback runs up to the readdir call.  Nothing is started after a rejection.
StartOperation(b) ==
  /\ promise[b].state = "pending"
  /\ Len(operations[b]) < Len(thirdPartyPackages[CapturedMap(b)])
  /\ LET entry == thirdPartyPackages[CapturedMap(b)][Len(operations[b]) + 1].value
     IN operations' =
          [operations EXCEPT
             ![b] = Append(@, [state |-> "readdir", dir |-> entry.packageFolderPath,
                               data |-> entry.packageJsonData, licensePath |-> None])]
  /\ lastEvent' = None
  /\ UNCHANGED <<call, cli, loader>>
  /\ UNCHANGED <<scheduled, options, generatorCall, phase, thirdPartyPackages, packages, promise, assets, errors,
                 eventsLeft, firstSeen, lastSeen, atRejection>>

\* A callback throws: forEachAsync rejects unless it is settled already.
OperationThrows(b, i, error) ==
  /\ operations' = [operations EXCEPT ![b][i].state = "failed"]
  /\ promise' = [promise EXCEPT ![b] = Reject(@, error)]
  /\ atRejection' =
       [atRejection EXCEPT ![b] = IF promise[b].state = "pending" THEN Some(packages[b]) ELSE @]
  /\ lastEvent' = None
  /\ UNCHANGED <<call, cli, loader>>
  /\ UNCHANGED <<scheduled, options, generatorCall, phase, thirdPartyPackages, packages, assets, errors,
                 eventsLeft, firstSeen, lastSeen>>

\* inputFileSystem.readdir calls back with an error.
ReaddirFails(b, i, error) ==
  /\ i \in 1..Len(operations[b])
  /\ operations[b][i].state = "readdir"
  /\ OperationThrows(b, i, error)

\* inputFileSystem.readdir calls back with files: the callback goes on to
\* read the license file, or pushes the record without licenseSource.
ReaddirReturns(b, i, files) ==
  /\ i \in 1..Len(operations[b])
  /\ operations[b][i].state = "readdir"
  /\ LET op == operations[b][i]
         licensePath == GetLicenseFilePath(op.dir, files)
     IN IF licensePath # None
          THEN /\ operations' =
                    [operations EXCEPT ![b][i].state = "readFile",
                                       ![b][i].licensePath = licensePath]
               /\ UNCHANGED packages
          ELSE /\ operations' = [operations EXCEPT ![b][i].state = "done"]
               /\ packages' =
                    [packages EXCEPT ![b] = Append(@, RecordWithoutSource(op.data))]
  /\ lastEvent' = None
  /\ UNCHANGED <<call, cli, loader>>
  /\ UNCHANGED <<scheduled, options, generatorCall, phase, thirdPartyPackages, promise, assets, errors,
                 eventsLeft, firstSeen, lastSeen, atRejection>>

\* FileSystem.readFileAsync rejects.
ReadFileFails(b, i, error) ==
  /\ i \in 1..Len(operations[b])
  /\ operations[b][i].state = "readFile"
  /\ OperationThrows(b, i, error)

\* FileSystem.readFileAsync resolves with the text of the license file.
ReadFileReturns(b, i, text) ==
  /\ i \in 1..Len(operations[b])
  /\ operations[b][i].state = "readFile"
  /\ packages' =
       [packages EXCEPT ![b] = Append(@, RecordWithSource(operations[b][i].data, text))]
  /\ operations' = [operations EXCEPT ![b][i].state = "done"]
  /\ lastEvent' = None
  /\ UNCHANGED <<call, cli, loader>>
  /\ UNCHANGED <<scheduled, options, generatorCall, phase, thirdPartyPackages, promise, assets, errors,
                 eventsLeft, firstSeen, lastSeen, atRejection>>

\* forEachAsync resolves: the iterator is exhausted and no callback runs.
ForEachResolves(b) ==
  /\ promise[b].state = "pending"
  /\ Len(operations[b]) = Len(thirdPartyPackages[CapturedMap(b)])
  /\ \A i \in 1..Len(operations[b]) : operations[b][i].state = "done"
  /\ promise' = [promise EXCEPT ![b] = Resolved]
  /\ lastEvent' = None
  /\ UNCHANGED <<call, cli, loader>>
  /\ UNCHANGED <<scheduled, options, generatorCall, phase, thirdPartyPackages, packages, operations, assets, errors,
                 eventsLeft, firstSeen, lastSeen, atRejection>>

\* What calling the license generator does: it returns its text or throws.
\* The default generator always returns.
Returns == [returned |-> TRUE]
Throws(error) == [returned |-> FALSE, error |-> error]
GeneratorBehaviours == {Returns} \cup { Throws(e) : e \in ThrownByTemplate }

GeneratedText(o, array) ==
  IF GenerateLicenseFileFunction(o) = "_defaultLicenseFileGenerator"
    THEN DefaultLicenseFileGenerator(array)
    ELSE <<"custom license text">>

\* compilation.errors after the catch block of the enrichment.
CatchEnrichment(compilationErrors, p) ==
  IF p.state = "rejected"
    THEN EmitWebpackError(compilationErrors, "Failed to process embedded dependencies",
                          p.reason[1])
    ELSE compilationErrors

\* The assets after the license step: the generator is called first, and
\* emitAsset only when it returned.
LicenseAssets(o, compilationAssets, array, behaviour) ==
  IF GenerateLicenseFile(o) /\ behaviour.returned
    THEN EmitAsset(compilationAssets, GeneratedLicenseFilename(o), GeneratedText(o, array))
    ELSE compilationAssets

\* Mutant: a throwing generator is swallowed without a build error.
LicenseErrorsSilent(o, compilationErrors, behaviour) == compilationErrors

\* compilation.errors after the license step.
LicenseErrors(o, compilationErrors, behaviour) ==
  IF GenerateLicenseFile(o) /\ ~behaviour.returned
    THEN EmitWebpackError(compilationErrors, "Failed to generate license file",
                          behaviour.error)
    ELSE compilationErrors

\* processAssets continues after the await: catch, finally, the inventory
\* document, then the license document.
Report(b, behaviour) ==
  /\ phase[b] = "seal"
  /\ IsSettled(promise[b])
  /\ (GenerateLicenseFileFunction(options) = "_defaultLicenseFileGenerator")
       => behaviour.returned
  /\ LET sorted == FinallySort(packages[b], promise[b].state = "rejected")
     IN /\ packages' = [packages EXCEPT ![b] = sorted]
        /\ assets' =
             [assets EXCEPT ![b] =
                LicenseAssets(options,
                              EmitAsset(@, OutputFileName(options), StringifyInventory(sorted)),
                              sorted, behaviour)]
        /\ errors' =
             [errors EXCEPT ![b] =
                LicenseErrors(options, CatchEnrichment(@, promise[b]), behaviour)]
  /\ generatorCall' =
       [generatorCall EXCEPT ![b] = IF GenerateLicenseFile(options) THEN Some(behaviour) ELSE None]
  /\ phase' = [phase EXCEPT ![b] = "done"]
  /\ lastEvent' = None
  /\ UNCHANGED <<call, cli, loader>>
  /\ UNCHANGED <<scheduled, options, thirdPartyPackages, operations, promise, eventsLeft, firstSeen, lastSeen, atRejection>>

Next ==
  \E b \in Builds :
    \/ ThisCompilation(b)
    \/ \E ev \in ModuleEvents : ModuleHook(b, ev)
    \/ ProcessAssets(b)
    \/ StartOperation(b)
    \/ \E i \in 1..MaxEvents, e \in ThrownByFileSystem : ReaddirFails(b, i, e)
    \/ \E i \in 1..MaxEvents, files \in Listings : ReaddirReturns(b, i, files)
    \/ \E i \in 1..MaxEvents, e \in ThrownByFileSystem : ReadFileFails(b, i, e)
    \/ \E i \in 1..MaxEvents, text \in FileTexts : ReadFileReturns(b, i, text)
    \/ ForEachResolves(b)
    \/ \E behaviour \in GeneratorBehaviours : Report(b, behaviour)

Spec == Init /\ [][Next]_vars

SpecBuilds == InitBuilds /\ [][Next]_vars

\* ------------------------------------------------- two runs, one input
\* The retained events of a build whose bundle holds two versions of a.
RunEvents ==
  { ev \in ModuleEvents :
      /\ ev.hasResolveData /\ ev.accept
      /\ ev.filePath = Some(PathNmA)
      /\ ev.pkg \in {Some(PkgA1), Some(PkgA2)} }

\* The entries a table holds, as key/value pairs.
EntriesOf(m) == { <<m[i].key, m[i].value>> : i \in 1..Len(m) }

\* Two builds that ran the module hook over the same two events in the same
\* order and stand before processAssets.
InitRuns ==
  /\ scheduled = Builds
  /\ options = NoOptions
  /\ phase = [b \in Builds |-> "make"]
  /\ \E first \in RunEvents : \E second \in RunEvents \ {first} :
       thirdPartyPackages =
         [b \in Builds |-> ObserveModule(options, ObserveModule(options, NewMap, first), second)]
  /\ packages = [b \in Builds |-> <<>>]
  /\ operations = [b \in Builds |-> <<>>]
  /\ promise = [b \in Builds |-> NotStarted]
  /\ assets = [b \in Builds |-> <<>>]
  /\ errors = [b \in Builds |-> <<>>]
  /\ eventsLeft = 0
  /\ lastEvent = None
  /\ firstSeen = [b \in Builds |-> EntriesOf(thirdPartyPackages[b])]
  /\ lastSeen = [b \in Builds |-> EntriesOf(thirdPartyPackages[b])]
  /\ atRejection = [b \in Builds |-> None]
  /\ generatorCall = [b \in Builds |-> None]
  /\ call = Unused
  /\ cli = Unused
  /\ loader = Unused

\* The processAssets stage of the two builds: the file system answers the
\* same listing and the same text to every request.
NextRuns ==
  \E b \in Builds :
    \/ ProcessAssets(b)
    \/ StartOperation(b)
    \/ \E i \in 1..MaxEvents, e \in ThrownByFileSystem : ReaddirFails(b, i, e)
    \/ \E i \in 1..MaxEvents, files \in Listings : ReaddirReturns(b, i, files)
    \/ \E i \in 1..MaxEvents, e \in ThrownByFileSystem : ReadFileFails(b, i, e)
    \/ \E i \in 1..MaxEvents, text \in FileTexts : ReadFileReturns(b, i, text)
    \/ ForEachResolves(b)
    \/ \E behaviour \in GeneratorBehaviours : Report(b, behaviour)

SpecRuns == InitRuns /\ [][NextRuns]_vars

\* ------------------------------------------------ parseLicense, by itself
MaxLicenses == 3

\* The entries a licenses array is made of.
LicenseEntries == { [type |-> "MIT", url |-> "u1"], [type |-> "Apache-2.0", url |-> "u2"] }

\* The sequences over a set, up to a length.
SeqsUpTo(S, n) == UNION { [1..k -> S] : k \in 0..n }

\* The license and licenses fields a package.json can carry.
LicenseFields == {Undefined, "", "MIT", "ISC"}
LicensesFields ==
  {NoLicenses, [kind |-> "string", text |-> "BSD-3-Clause"]}
    \cup { [kind |-> "array", items |-> items] : items \in SeqsUpTo(LicenseEntries, MaxLicenses) }

LicenseDescriptors ==
  { [name |-> NameA, version |-> Version1, license |-> l, licenses |-> ls, author |-> NoAuthor] :
      l \in LicenseFields, ls \in LicensesFields }

\* No plugin instance takes part.
NoPlugin ==
  /\ scheduled = {}
  /\ options = NoOptions
  /\ phase = [b \in Builds |-> "idle"]
  /\ thirdPartyPackages = [b \in Builds |-> NewMap]
  /\ packages = [b \in Builds |-> <<>>]
  /\ operations = [b \in Builds |-> <<>>]
  /\ promise = [b \in Builds |-> NotStarted]
  /\ assets = [b \in Builds |-> <<>>]
  /\ errors = [b \in Builds |-> <<>>]
  /\ eventsLeft = 0
  /\ lastEvent = None
  /\ firstSeen = [b \in Builds |-> {}]
  /\ lastSeen = [b \in Builds |-> {}]
  /\ atRejection = [b \in Builds |-> None]
  /\ generatorCall = [b \in Builds |-> None]

InitLicense ==
  /\ NoPlugin
  /\ call \in { [pc |-> "called", input |-> d, output |-> None] : d \in LicenseDescriptors }
  /\ cli = Unused
  /\ loader = Unused

\* const license = parseLicense(data)
ParseLicenseReturns ==
  /\ call.pc = "called"
  /\ call' = [call EXCEPT !.pc = "returned", !.output = Some(parseLicense(call.input))]
  /\ UNCHANGED <<pluginVars, cli, loader>>

SpecLicense == InitLicense /\ [][ParseLicenseReturns]_vars

\* ------------------------------------- the per-entry callback, by itself
MaxListing == 3
MaxLines == 2

\* The author field a package.json can carry.
AuthorFields ==
  { NoAuthor,
    [kind |-> "string", text |-> "Jane Doe"],
    [kind |-> "string", text |-> ""],
    [kind |-> "object", name |-> "Bob"],
    [kind |-> "object", name |-> Undefined] }

AuthorDescriptors == { [PkgA2 EXCEPT !.author = a] : a \in AuthorFields }

\* What readdir and readFile can answer with.
FileNames == {"index.js", "LICENSE", "LICENSE.txt", "COPYING"}
TextLines == {"MIT License text...", "Copyright (c) 2020 Acme Corp", "Copyright 2019 Other"}

InitEnrich ==
  /\ NoPlugin
  /\ call \in { [pc |-> "readdir", dir |-> PathNmA, data |-> d, files |-> <<>>,
                  licensePath |-> None, text |-> <<>>, record |-> None] :
                 d \in AuthorDescriptors }
  /\ cli = Unused
  /\ loader = Unused

\* readdir answers: the callback picks the license file and goes on to
\* read it, or pushes the record without licenseSource.
EnrichReaddirReturns(files) ==
  /\ call.pc = "readdir"
  /\ LET licensePath == GetLicenseFilePath(call.dir, files)
     IN call' =
          IF licensePath # None
            THEN [call EXCEPT !.pc = "readFile", !.files = files, !.licensePath = licensePath]
            ELSE [call EXCEPT !.pc = "pushed", !.files = files,
                              !.record = Some(RecordWithoutSource(call.data))]
  /\ UNCHANGED <<pluginVars, cli, loader>>

\* readFileAsync answers: the callback pushes the record with licenseSource.
EnrichReadFileReturns(text) ==
  /\ call.pc = "readFile"
  /\ call' = [call EXCEPT !.pc = "pushed", !.text = text,
                           !.record = Some(RecordWithSource(call.data, text))]
  /\ UNCHANGED <<pluginVars, cli, loader>>

NextEnrich ==
  \/ \E files \in SeqsUpTo(FileNames, MaxListing) : EnrichReaddirReturns(files)
  \/ \E text \in SeqsUpTo(TextLines, MaxLines) : EnrichReadFileReturns(text)

SpecEnrich == InitEnrich /\ [][NextEnrich]_vars

\* ------------------------------------------- WebpackConfigurationLoader
\* A path is the sequence of its segments; '' and an option left out are
\* both the path without segments.
DEFAULT_WEBPACK_CONFIG_PATH == <<".", "webpack.config.js">>
DEFAULT_WEBPACK_DEV_CONFIG_PATH == <<".", "webpack.dev.config.js">>

BuildFolder == <<"proj">>

\* path.resolve(buildFolder, relativePath): the "." segments go away.
IsNamedSegment(segment) == segment # "."
Resolve(buildFolder, relativePath) == buildFolder \o SelectSeq(relativePath, IsNamedSegment)

\* configurationPath || DEFAULT
PathOrDefault(configuredPath, defaultPath) ==
  IF configuredPath = <<>> THEN defaultPath ELSE configuredPath

\* The configurationPath and devConfigurationPath options.
ConfigurationPathOptions == { <<>>, <<".", "config", "webpack.js">> }
DevConfigurationPathOptions == { <<>>, <<".", "config", "webpack.dev.js">>, <<".", "config", "webpack.js">> }

\* What import() of a configuration file resolves with: a module whose
\* default export is an object, a function, or missing.  A function is
\* called with the environment and returns a configuration or throws.
ConfigModules ==
  { [default |-> Some([kind |-> "object"])],
    [default |-> Some([kind |-> "function", throws |-> FALSE])],
    [default |-> Some([kind |-> "function", throws |-> TRUE])],
    [default |-> None] }

\* What import() rejects with.
ImportErrors == { "SyntaxError: Unexpected token" }

\* `Error loading webpack configuration at "${configurationPath}": ${e}`
LoadError(configurationPath, e) ==
  [type |-> "Error",
   message |-> <<"Error loading webpack configuration at \"", configurationPath, "\": ", e>>]

\* One attempt: writeVerboseLine, then existsAsync on the path.
Attempt(which, attemptPath) ==
  [which |-> which, path |-> attemptPath, exists |-> "pending", load |-> "none"]

\* The attempt in progress is the last one.
SetLast(tried, field, value) == [tried EXCEPT ![Len(tried)][field] = value]

\* Lines 92-109: the value returned for what was loaded.
LoaderTail(l) ==
  IF l.webpackConfigJs = None
    THEN [l EXCEPT !.pc = "returned", !.result = None]
  ELSE LET module == l.webpackConfigJs[1]
           webpackConfig == IF module.default # None THEN module.default[1] ELSE module
       IN IF "kind" \in DOMAIN webpackConfig /\ webpackConfig.kind = "function"
            THEN IF webpackConfig.throws
                   THEN [l EXCEPT !.pc = "threw"]
                   ELSE [l EXCEPT !.pc = "returned",
                                  !.result = Some([kind |-> "object",
                                                   env |-> [prod |-> l.production,
                                                            production |-> l.production]])]
            ELSE [l EXCEPT !.pc = "returned", !.result = Some(webpackConfig)]

\* Lines 80-87 up to the await: the standard path is attempted.
TryStandard(l) ==
  [l EXCEPT !.pc = "exists",
            !.tried = Append(@, Attempt("standard",
                                        Resolve(BuildFolder,
                                                PathOrDefault(l.configurationPath,
                                                              DEFAULT_WEBPACK_CONFIG_PATH))))]

\* Mutant: the standard path is attempted whatever the dev attempt gave.
StandardNeededAlways(webpackConfigJs) == TRUE

\* if (!webpackConfigJs)
StandardNeeded(webpackConfigJs) == webpackConfigJs = None

\* _tryLoadWebpackConfigurationInnerAsync returned value to its caller.
InnerReturns(l, value) ==
  IF l.tried[Len(l.tried)].which = "dev"
    THEN IF StandardNeeded(value)
           THEN TryStandard([l EXCEPT !.webpackConfigJs = value])
           ELSE LoaderTail([l EXCEPT !.webpackConfigJs = value])
    ELSE LoaderTail([l EXCEPT !.webpackConfigJs = value])

\* Mutant: a file that does not load counts as a file that is not there.
InnerThrowsFallsBack(l, e) == InnerReturns(l, None)

\* _tryLoadWebpackConfigurationInnerAsync throws: the catch block emits the
\* error and the function goes on with what webpackConfigJs holds.
InnerThrows(l, e) ==
  LoaderTail([l EXCEPT !.emitted =
                         Append(@, LoadError(l.tried[Len(l.tried)].path, e))])

InitLoader ==
  /\ NoPlugin
  /\ call = Unused
  /\ cli = Unused
  /\ loader \in { [pc |-> "called", serveMode |-> serve, production |-> prod,
                    configurationPath |-> std, devConfigurationPath |-> dev,
                    webpackConfigJs |-> None, tried |-> <<>>, emitted |-> <<>>,
                    result |-> None] :
                   serve \in BOOLEAN, prod \in BOOLEAN,
                   std \in ConfigurationPathOptions, dev \in DevConfigurationPathOptions }

\* tryLoadWebpackConfigurationAsync up to its first await.
LoaderEnters ==
  /\ loader.pc = "called"
  /\ loader' =
       IF loader.serveMode
         THEN [loader EXCEPT
                 !.pc = "exists",
                 !.tried = <<Attempt("dev",
                                     Resolve(BuildFolder,
                                             PathOrDefault(loader.devConfigurationPath,
                                                           DEFAULT_WEBPACK_DEV_CONFIG_PATH)))>>]
         ELSE TryStandard(loader)
  /\ UNCHANGED <<pluginVars, call, cli>>

\* FileSystem.existsAsync answers.
ExistsAnswers(configExists) ==
  /\ loader.pc = "exists"
  /\ loader' =
       IF configExists
         THEN [loader EXCEPT !.pc = "import",
                             !.tried = SetLast(SetLast(@, "exists", "yes"), "load", "pending")]
         ELSE InnerReturns([loader EXCEPT !.tried = SetLast(@, "exists", "no")], None)
  /\ UNCHANGED <<pluginVars, call, cli>>

\* import(configurationPath) resolves with the module.
ImportResolves(module) ==
  /\ loader.pc = "import"
  /\ loader' = InnerReturns([loader EXCEPT !.tried = SetLast(@, "load", "resolved")],
                            Some(module))
  /\ UNCHANGED <<pluginVars, call, cli>>

\* import(configurationPath) rejects.
ImportRejects(e) ==
  /\ loader.pc = "import"
  /\ loader' = InnerThrows([loader EXCEPT !.tried = SetLast(@, "load", "rejected")], e)
  /\ UNCHANGED <<pluginVars, call, cli>>

NextLoader ==
  \/ LoaderEnters
  \/ \E configExists \in BOOLEAN : ExistsAnswers(configExists)
  \/ \E module \in ConfigModules : ImportResolves(module)
  \/ \E e \in ImportErrors : ImportRejects(e)

SpecLoader == InitLoader /\ [][NextLoader]_vars

\* ------------------------------------------------ alias actions of a CLI
MaxArguments == 3

\* A command-line token is the sequence of its pieces: '--scoped-foo' is
\* "--", "scoped-", "foo".
Token(text) == <<text>>
LongName(name) == <<"--", name>>
ScopedLongName(scope) == <<"--", "scoped-">> \o scope
DoubleHyphen == <<"--">>
StartsWithHyphen(token) == token[1] = "--"

CliTokens ==
  { LongName("flag"), LongName("verbose"), LongName("scope"), DoubleHyphen,
    ScopedLongName(Token("foo")), Token("foo"), Token("bar") }

\* The defaultArguments an alias is constructed with.
DefaultArgumentLists ==
  { <<>>,
    <<LongName("flag")>>,
    <<LongName("verbose")>>,
    <<LongName("scope")>>,
    <<LongName("scope"), Token("foo")>>,
    <<LongName("scope"), Token("foo"), DoubleHyphen>>,
    <<LongName("scope"), Token("bar"), DoubleHyphen>>,
    <<DoubleHyphen, ScopedLongName(Token("foo"))>> }

\* The parameters TestAction and TestScopedAction define, with the parser
\* key of each, and whether the action takes a remainder after "--".
ParametersOf(actionName) ==
  IF actionName = "action"
    THEN << [longName |-> LongName("flag"), kind |-> "flag", key |-> <<actionName, 1>>] >>
    ELSE << [longName |-> LongName("verbose"), kind |-> "flag", key |-> <<actionName, 1>>],
            [longName |-> LongName("scope"), kind |-> "string", key |-> <<actionName, 2>>] >>

HasRemainder(actionName) == actionName = "scoped-action"

\* AliasCommandLineAction: one parameter of its own per parameter of the
\* target, same name and kind, under the alias's parser key.
AliasParametersOf(targetName) ==
  [i \in 1..Len(ParametersOf(targetName)) |->
     [ParametersOf(targetName)[i] EXCEPT !.key = <<"alias-action", i>>]]

\* _parameterKeyMap: the target's parser key for a parser key of the alias.
ParameterKeyMap(targetName, aliasKey) == ParametersOf(targetName)[aliasKey[2]].key

\* The parser reads the tokens left to right: a flag is set, a string
\* parameter takes the next token, "--" starts the remainder.
RECURSIVE ParseTokens(_, _, _, _)
ParseTokens(parameters, remainderAllowed, tokens, data) ==
  IF tokens = <<>> THEN [ok |-> TRUE, data |-> data, remainder |-> <<>>]
  ELSE IF tokens[1] = DoubleHyphen
    THEN IF remainderAllowed
           THEN [ok |-> TRUE, data |-> data, remainder |-> Tail(tokens)]
           ELSE [ok |-> FALSE, data |-> data, remainder |-> <<>>]
  ELSE LET named == { i \in 1..Len(parameters) : parameters[i].longName = tokens[1] }
       IN IF named = {} THEN [ok |-> FALSE, data |-> data, remainder |-> <<>>]
          ELSE LET parameter == parameters[CHOOSE i \in named : TRUE]
               IN IF parameter.kind = "flag"
                    THEN ParseTokens(parameters, remainderAllowed, Tail(tokens),
                                     data \cup { <<parameter.key, <<"true">> >> })
                  ELSE IF Len(tokens) >= 2 /\ ~StartsWithHyphen(tokens[2])
                    THEN ParseTokens(parameters, remainderAllowed, Tail(Tail(tokens)),
                                     { e \in data : e[1] # parameter.key }
                                       \cup { <<parameter.key, tokens[2]>> })
                  ELSE [ok |-> FALSE, data |-> data, remainder |-> <<>>]

\* The value parsed for a key, or the empty token.
ValueOf(data, key) ==
  IF \E e \in data : e[1] = key THEN (CHOOSE e \in data : e[1] = key)[2] ELSE <<>>

\* AliasCommandLineAction._processParsedData: the data under the target's keys.
RemapToTarget(targetName, data) ==
  { <<ParameterKeyMap(targetName, e[1]), e[2]>> : e \in data }

Failed(result) ==
  [result |-> result, selectedAction |-> "undefined", done |-> FALSE, data |-> {},
   scopedValue |-> <<>>]

\* The target action runs with its parsed data.  TestScopedAction defines
\* --scoped-<scope> when --scope has a value, parses the remainder with
\* it, and onExecute copies its value; TestAction.onExecute expects --flag.
ExecuteAction(actionName, selected, data, remainder) ==
  IF actionName = "action"
    THEN IF ValueOf(data, <<actionName, 1>>) = <<"true">>
           THEN [result |-> "executed", selectedAction |-> selected, done |-> TRUE,
                 data |-> data, scopedValue |-> <<>>]
           ELSE [Failed("onExecute threw") EXCEPT !.selectedAction = selected, !.data = data]
    ELSE LET scope == ValueOf(data, <<actionName, 2>>)
             scopedParameters ==
               IF scope = <<>> THEN <<>>
               ELSE << [longName |-> ScopedLongName(scope), kind |-> "string",
                        key |-> <<"scoped", 1>>] >>
             scoped == ParseTokens(scopedParameters, FALSE, remainder, {})
         IN IF scoped.ok
              THEN [result |-> "executed", selectedAction |-> selected, done |-> TRUE,
                    data |-> data, scopedValue |-> ValueOf(scoped.data, <<"scoped", 1>>)]
              ELSE [Failed("parse error") EXCEPT !.selectedAction = selected]

\* Mutant: the default arguments go after the command-line arguments.
InsertDefaultArgumentsLast(defaultArguments, arguments) == arguments \o defaultArguments

\* CommandLineParser.execute: the default arguments of an alias are put
\* right after the action name.
InsertDefaultArguments(defaultArguments, arguments) == defaultArguments \o arguments

\* CommandLineParser.execute(argv) with the alias registered.
Execute(targetName, defaultArguments, argv) ==
  IF argv[1] = Token("alias-action")
    THEN LET parsed == ParseTokens(AliasParametersOf(targetName), HasRemainder(targetName),
                                   InsertDefaultArguments(defaultArguments, Tail(argv)), {})
         IN IF parsed.ok
              THEN ExecuteAction(targetName, "alias-action",
                                 RemapToTarget(targetName, parsed.data), parsed.remainder)
              ELSE Failed("parse error")
  ELSE IF argv[1] \in {Token("action"), Token("scoped-action")}
    THEN LET actionName == argv[1][1]
             parsed == ParseTokens(ParametersOf(actionName), HasRemainder(actionName),
                                   Tail(argv), {})
         IN IF parsed.ok
              THEN ExecuteAction(actionName, actionName, parsed.data, parsed.remainder)
              ELSE Failed("parse error")
  ELSE Failed("unknown action")

InitAlias ==
  /\ NoPlugin
  /\ call = Unused
  /\ loader = Unused
  /\ cli \in { [pc |-> "constructed", target |-> t, defaultArguments |-> d, arguments |-> a,
                 aliasRun |-> Failed("not run"), targetRun |-> Failed("not run")] :
                t \in {"action", "scoped-action"},
                d \in DefaultArgumentLists,
                a \in SeqsUpTo(CliTokens, MaxArguments) }

\* commandLineParser.execute(['alias-action', ...arguments])
ExecuteAlias ==
  /\ cli.pc = "constructed"
  /\ cli' = [cli EXCEPT !.pc = "alias executed",
                         !.aliasRun = Execute(cli.target, cli.defaultArguments,
                                              <<Token("alias-action")>> \o cli.arguments)]
  /\ UNCHANGED <<pluginVars, call, loader>>

\* A parser of its own executes the target action by name, with the
\* default arguments written out before the arguments.
ExecuteTarget ==
  /\ cli.pc = "alias executed"
  /\ cli' = [cli EXCEPT !.pc = "both executed",
                         !.targetRun = Execute(cli.target, cli.defaultArguments,
                                               <<Token(cli.target)>> \o cli.defaultArguments
                                                 \o cli.arguments)]
  /\ UNCHANGED <<pluginVars, call, loader>>

NextAlias == ExecuteAlias \/ ExecuteTarget

SpecAlias == InitAlias /\ [][NextAlias]_vars

\* ================================================================ claims
\* What the formulas read off the state.
KeysSeen(b) == { e[1] : e \in lastSeen[b] }

\* The key was retained at least twice in build b, with different values.
SeenWithTwoValues(b) == \E e \in firstSeen[b] : e \notin lastSeen[b]

\* The emitAsset calls of build b that carry the file name.
AssetsNamed(b, file) == { i \in 1..Len(assets[b]) : assets[b][i].file = file }

\* The configured name of the inventory document, read from the options.
ConfiguredOutputName ==
  IF options.outputFileName \in {Undefined, ""}
    THEN "embedded-dependencies.json" ELSE options.outputFileName

ConfiguredLicenseName ==
  IF options.generatedLicenseFilename \in {Undefined, ""}
    THEN "THIRD-PARTY-NOTICES.html" ELSE options.generatedLicenseFilename

LicenseFileEnabled == options.generateLicenseFile = Some(TRUE)

IsSortedByName(records) ==
  \A i, j \in 1..Len(records) : i < j => ~StringLess(records[j].name, records[i].name)

\* The errors of build b whose message carries the tag.
ErrorsTagged(b, tag) ==
  { i \in 1..Len(errors[b]) : \E j \in 1..Len(errors[b][i]) : errors[b][i][j] = tag }

MessageContains(message, text) == \E j \in 1..Len(message) : message[j] = text

\* The message of a thrown value.
ThrownMessage(error) ==
  IF error.type = "string" THEN error.text
  ELSE IF error.type = "Error" THEN error.message
  ELSE error.json

\* C1: in every build the table has exactly one entry for each key that was
\* retained, and a retained event whose key is already in the table does not
\* change the number of entries.
C1_TableInv ==
  \A b \in Builds :
    /\ MapKeys(thirdPartyPackages[b]) = KeysSeen(b)
    /\ Len(thirdPartyPackages[b]) = Cardinality(KeysSeen(b))

C1_RepeatStep ==
  \A b \in Builds :
    (/\ lastEvent' # None
     /\ lastEvent'[1].build = b
     /\ IsRetained(options, lastEvent'[1].event)
     /\ MapHas(thirdPartyPackages[b],
               makePackageMapKeyForPackage(lastEvent'[1].event.pkg[1])))
    => Len(thirdPartyPackages'[b]) = Len(thirdPartyPackages[b])

\* C1: the table always has exactly one entry per retained key, and no step
\* that observes a key already in the table adds an entry.
C1_OneEntryPerKey == [](C1_TableInv) /\ [][C1_RepeatStep]_vars

\* Witness of C1: a key was retained twice and the table has two entries.
C1_Witness ==
  \E b \in Builds :
    /\ SeenWithTwoValues(b)
    /\ Len(thirdPartyPackages[b]) = 2
    /\ eventsLeft = 0

\* C2: the embeddedDependencies array of every emitted inventory document is
\* sorted ascending by name.
C2_InventorySorted ==
  \A b \in Builds : \A i \in AssetsNamed(b, ConfiguredOutputName) :
    IsSortedByName(assets[b][i].source.embeddedDependencies)

\* Witness of C2: modules were discovered in descending name order, the
\* enrichment failed part-way, and the inventory has two names in ascending order.
C2_Witness ==
  \E b \in Builds :
    /\ phase[b] = "done"
    /\ promise[b].state = "rejected"
    /\ Len(thirdPartyPackages[b]) = 3
    /\ thirdPartyPackages[b][1].value.packageJsonData.name = NameAB
    /\ Len(assets[b][1].source.embeddedDependencies) = 2
    /\ assets[b][1].source.embeddedDependencies[1].name = NameA
    /\ assets[b][1].source.embeddedDependencies[2].name = NameAB

\* C3: the inventory document is emitted exactly once by a build whose
\* processAssets stage has run, under the configured name, never before and
\* never twice; with an empty table its array is empty.
C3_InventoryOnce ==
  \A b \in Builds :
    /\ Cardinality(AssetsNamed(b, ConfiguredOutputName)) =
         (IF phase[b] = "done" THEN 1 ELSE 0)
    /\ (phase[b] = "done" /\ thirdPartyPackages[b] = <<>>)
         => assets[b][1].source.embeddedDependencies = <<>>

\* Witness of C3: the enrichment threw and the inventory is there, once.
C3_Witness ==
  \E b \in Builds :
    /\ phase[b] = "done"
    /\ promise[b].state = "rejected"
    /\ options.outputFileName = ""
    /\ Cardinality(AssetsNamed(b, "embedded-dependencies.json")) = 1

\* C4: when the license generator threw, the inventory document is emitted,
\* exactly one error carries "Failed to generate license file" and it carries
\* the thrown message, no license document is emitted, and the stage is done.
C4_GeneratorThrew(b) ==
  /\ generatorCall[b] # None
  /\ ~generatorCall[b][1].returned

C4_TemplateFailure ==
  \A b \in Builds :
    C4_GeneratorThrew(b) =>
      /\ phase[b] = "done"
      /\ Len(assets[b]) = 1
      /\ assets[b][1].file = ConfiguredOutputName
      /\ AssetsNamed(b, ConfiguredLicenseName) = {}
      /\ Cardinality(ErrorsTagged(b, "Failed to generate license file")) = 1
      /\ \A i \in ErrorsTagged(b, "Failed to generate license file") :
           MessageContains(errors[b][i], ThrownMessage(generatorCall[b][1].error))

\* Witness of C4: the generator threw an Error after a failed enrichment.
C4_Witness ==
  \E b \in Builds :
    /\ C4_GeneratorThrew(b)
    /\ generatorCall[b][1].error.type = "Error"
    /\ Len(errors[b]) = 2
    /\ Len(assets[b]) = 1

\* C5: a build calls emitAsset at most twice, at most once per document, and
\* a finished build has the license document exactly when the option is true
\* and the generator returned.
C5_EmitCalls ==
  \A b \in Builds :
    /\ Len(assets[b]) <= 2
    /\ Cardinality(AssetsNamed(b, ConfiguredOutputName)) <= 1
    /\ Cardinality(AssetsNamed(b, ConfiguredLicenseName)) <= 1
    /\ (AssetsNamed(b, ConfiguredLicenseName) # {}) <=>
         (/\ phase[b] = "done"
          /\ LicenseFileEnabled
          /\ generatorCall[b] = Some(Returns))
    /\ \A i \in 1..Len(assets[b]) :
         assets[b][i].file \in {ConfiguredOutputName, ConfiguredLicenseName}

\* Witness of C5: both documents were emitted.
C5_Witness ==
  \E b \in Builds :
    /\ Len(assets[b]) = 2
    /\ assets[b][2].file = "custom-license-file-name.html"

\* C6: when the enrichment threw, exactly one error carries "Failed to
\* process embedded dependencies" and the emitted inventory, sorted by name,
\* has every record that was complete when forEachAsync rejected.
C6_PartialResults ==
  \A b \in Builds :
    (phase[b] = "done" /\ promise[b].state = "rejected") =>
      /\ Cardinality(ErrorsTagged(b, "Failed to process embedded dependencies")) = 1
      /\ Len(assets[b]) >= 1
      /\ assets[b][1].file = ConfiguredOutputName
      /\ IsSortedByName(assets[b][1].source.embeddedDependencies)
      /\ \A i \in 1..Len(atRejection[b][1]) :
           \E j \in 1..Len(assets[b][1].source.embeddedDependencies) :
             assets[b][1].source.embeddedDependencies[j] =
               StringifyRecord(atRejection[b][1][i])

\* Witness of C6: two records were complete when a third entry failed.
C6_Witness ==
  \E b \in Builds :
    /\ phase[b] = "done"
    /\ promise[b].state = "rejected"
    /\ Len(atRejection[b][1]) = 2
    /\ Len(assets[b][1].source.embeddedDependencies) = 2

\* C7 as claimed: the entry of a key holds the value of the first retained
\* event for the key.
C7_FirstEventWins ==
  \A b \in Builds : \A e \in firstSeen[b] :
    /\ MapHas(thirdPartyPackages[b], e[1])
    /\ MapGet(thirdPartyPackages[b], e[1]) = e[2]

\* C7 amended: the entry of a key holds the folder path and descriptor of the
\* last retained event for the key.
C7_LastEventWins ==
  \A b \in Builds : \A e \in lastSeen[b] :
    /\ MapHas(thirdPartyPackages[b], e[1])
    /\ MapGet(thirdPartyPackages[b], e[1]) = e[2]

\* Witness of C7: a key was retained with two different folder paths and
\* descriptors, and the table holds the later one.
C7_Witness ==
  \E b \in Builds : \E e \in firstSeen[b] :
    /\ e \notin lastSeen[b]
    /\ MapHas(thirdPartyPackages[b], e[1])
    /\ MapGet(thirdPartyPackages[b], e[1]).packageFolderPath # e[2].packageFolderPath
    /\ MapGet(thirdPartyPackages[b], e[1]).packageJsonData # e[2].packageJsonData

\* The path has a segment that is node_modules.
HasNodeModulesSegment(filePath) ==
  \E i \in 1..Len(filePath) : filePath[i] = <<"node_modules">>

\* The conditions of C8 on an event.
C8_Qualifies(ev) ==
  /\ ev.hasResolveData
  /\ ev.pkg # None
  /\ ev.filePath # None
  /\ (options.packageFilterPredicate # Undefined) => ev.accept
  /\ HasNodeModulesSegment(ev.filePath[1])

\* C8: a module event sets the entry of its key when it has a descriptor and
\* a path, the predicate accepts it and the path has a node_modules segment;
\* every other event leaves the table as it was.
C8_Step ==
  \A b \in Builds :
    (lastEvent' # None /\ lastEvent'[1].build = b) =>
      LET ev == lastEvent'[1].event
      IN IF C8_Qualifies(ev)
           THEN /\ MapHas(thirdPartyPackages'[b], makePackageMapKeyForPackage(ev.pkg[1]))
                /\ MapGet(thirdPartyPackages'[b], makePackageMapKeyForPackage(ev.pkg[1])) =
                     [packageFolderPath |-> ev.filePath[1], packageJsonData |-> ev.pkg[1]]
           ELSE thirdPartyPackages'[b] = thirdPartyPackages[b]

\* C8: every module event changes the table exactly as its qualification
\* (descriptor, path, predicate, node_modules segment) says.
C8_RetainedIffQualifies == [][C8_Step]_vars

\* C9: every record of the inventory a build emitted is of a package that a
\* retained module event of that same build carried.
C9_BuildScoped ==
  \A b \in Builds : \A i \in AssetsNamed(b, ConfiguredOutputName) :
    \A j \in 1..Len(assets[b][i].source.embeddedDependencies) :
      \E e \in firstSeen[b] \cup lastSeen[b] :
        /\ e[2].packageJsonData.name = assets[b][i].source.embeddedDependencies[j].name
        /\ e[2].packageJsonData.version = assets[b][i].source.embeddedDependencies[j].version

\* Witness of C9: a build emitted its inventory while another build, which
\* retained a different package, has an enrichment callback in flight.
C9_Witness ==
  \E b, c \in Builds :
    /\ b # c
    /\ phase[b] = "done"
    /\ Len(assets[b][1].source.embeddedDependencies) = 1
    /\ phase[c] = "seal"
    /\ \E i \in 1..Len(operations[c]) : operations[c][i].state = "readFile"
    /\ KeysSeen(c) # {}
    /\ KeysSeen(b) \cap KeysSeen(c) = {}

\* C10: the table of a build does not change once its processAssets stage
\* began; callbacks run and assets exist only from that stage on; the first
\* emitAsset call is the inventory document, made when forEachAsync has
\* settled, with the records sorted; the license document is a later call.
C10_TableStep ==
  \A b \in Builds :
    phase[b] \in {"seal", "done"} => thirdPartyPackages'[b] = thirdPartyPackages[b]

C10_StageInv ==
  \A b \in Builds :
    /\ (operations[b] # <<>> \/ assets[b] # <<>>) => phase[b] \in {"seal", "done"}
    /\ assets[b] # <<>> =>
         /\ promise[b].state \in {"resolved", "rejected"}
         /\ assets[b][1].file = ConfiguredOutputName
         /\ IsSortedByName(assets[b][1].source.embeddedDependencies)
    /\ \A i \in AssetsNamed(b, ConfiguredLicenseName) : i > 1

\* C10: the stages of a build run in order: discovery, enrichment until
\* forEachAsync settles, the sorted inventory document, the license document.
C10_StageOrder == [](C10_StageInv) /\ [][C10_TableStep]_vars

\* Witness of C10: both documents are emitted after an enrichment of two
\* entries that resolved.
C10_Witness ==
  \E b \in Builds :
    /\ promise[b].state = "resolved"
    /\ Len(operations[b]) = 2
    /\ Len(assets[b]) = 2
    /\ assets[b][2].file = ConfiguredLicenseName

\* The inventory document build b emitted, as its list of records.
InventoryOf(b) == assets[b][1].source.embeddedDependencies

RecordSet(records) == { records[i] : i \in 1..Len(records) }

\* C11: two runs that enriched the same retained entries into the same
\* records emit the same inventory document, whatever order the
\* enrichment operations completed in.
C11_SameDocument ==
  \A b, c \in Builds :
    (/\ phase[b] = "done" /\ phase[c] = "done"
     /\ promise[b].state = "resolved" /\ promise[c].state = "resolved"
     /\ EntriesOf(thirdPartyPackages[b]) = EntriesOf(thirdPartyPackages[c])
     /\ RecordSet(InventoryOf(b)) = RecordSet(InventoryOf(c)))
    => InventoryOf(b) = InventoryOf(c)

\* The name and version of every record of a list.
Identities(records) == { <<records[i].name, records[i].version>> : i \in 1..Len(records) }

\* The step of processAssets that emits: the inventory document is made
\* from the records pushed so far; afterwards no step changes the assets.
C16_EmitStep ==
  \A b \in Builds :
    /\ (phase[b] = "seal" /\ phase'[b] = "done")
         => /\ assets'[b] # <<>>
            /\ assets'[b][1].source = StringifyInventory(SortBy(packages[b]))
    /\ (phase[b] = "done") => (assets'[b] = assets[b])

\* C16: the inventory is emitted from the records completed when the
\* failure of the batch is caught, and a record completed after the
\* emission never changes the emitted document.
C16_FailFast == [][C16_EmitStep]_vars

\* A listing failed, the inventory was emitted, and an entry whose own
\* enrichment succeeded afterwards is missing from it.
C16_Witness ==
  \E b \in Builds :
    /\ phase[b] = "done"
    /\ promise[b].state = "rejected"
    /\ \E i, j \in 1..Len(operations[b]) :
         /\ operations[b][i].state = "failed"
         /\ operations[b][i].licensePath = None
         /\ operations[b][j].state = "done"
         /\ <<operations[b][j].data.name, operations[b][j].data.version>>
              \in Identities(packages[b])
         /\ <<operations[b][j].data.name, operations[b][j].data.version>>
              \notin Identities(InventoryOf(b))

\* The types of a licenses array, in collection order.
TypesOf(items) == [i \in 1..Len(items) |-> items[i].type]

\* "(t1 OR t2 OR ... OR tn)" as its pieces.
Parenthesised(types) ==
  [i \in 1..(2 * Len(types) + 1) |->
     IF i = 1 THEN "("
     ELSE IF i = 2 * Len(types) + 1 THEN ")"
     ELSE IF i % 2 = 0 THEN types[i \div 2]
     ELSE " OR "]

\* What a licenses array alone yields.
LicenseOfCollection(d) ==
  IF d.licenses.kind = "array" /\ Len(d.licenses.items) = 1
    THEN <<d.licenses.items[1].type>>
  ELSE IF d.licenses.kind = "array" /\ Len(d.licenses.items) >= 2
    THEN Parenthesised(TypesOf(d.licenses.items))
  ELSE None

\* C12, as stated: the scalar license field when present, otherwise what
\* the licenses collection yields, otherwise absent.
C12_LicenseAsStated ==
  (call.pc = "returned")
    => call.output =
         Some(IF call.input.license # Undefined
                THEN <<call.input.license>>
                ELSE LicenseOfCollection(call.input))

\* C12, amended: the scalar license field when present and not empty;
\* otherwise the licenses field itself when it is a string; otherwise the
\* type of the single entry, or the parenthesised " OR " list of two or
\* more entries, of a licenses collection; otherwise absent.
C12_License ==
  (call.pc = "returned")
    => call.output =
         Some(IF call.input.license \notin {Undefined, ""}
                THEN <<call.input.license>>
              ELSE IF call.input.licenses.kind = "string"
                THEN <<call.input.licenses.text>>
              ELSE LicenseOfCollection(call.input))

\* parseLicense returned "(MIT OR Apache-2.0)" for a two-entry collection.
C12_Witness ==
  /\ call.pc = "returned"
  /\ call.input.license = Undefined
  /\ call.input.licenses.kind = "array"
  /\ Len(call.input.licenses.items) = 2
  /\ call.output = Some(<<"(", "MIT", " OR ", "Apache-2.0", ")">>)

\* The least element of a non-empty set of numbers.
Least(S) == CHOOSE x \in S : \A y \in S : x <= y

\* The positions of the listing whose name matches the license pattern.
MatchingPositions(files) == { i \in 1..Len(files) : files[i] \in LICENSE_FILES }

\* The positions of the text where the copyright pattern matches.
CopyrightPositions(text) == { i \in 1..Len(text) : text[i] \in COPYRIGHT_LINES }

\* The author of a descriptor: a string verbatim, the name of an object.
AuthorOf(d) ==
  CASE d.author.kind = "string" -> d.author.text
    [] d.author.kind = "object" -> d.author.name
    [] OTHER -> Undefined

\* C13: with a license file, licenseSource is its text and copyright is
\* the first copyright match in it, or else the descriptor's author;
\* without one, licenseSource is absent and copyright is the author;
\* copyright is absent when neither yields a value.
C13_Record ==
  (call.pc = "pushed")
    => LET record == call.record[1]
       IN IF call.licensePath # None
            THEN /\ "licenseSource" \in DOMAIN record
                 /\ record.licenseSource = call.text
                 /\ record.copyright =
                      IF CopyrightPositions(call.text) # {}
                        THEN call.text[Least(CopyrightPositions(call.text))]
                        ELSE AuthorOf(call.data)
            ELSE /\ "licenseSource" \notin DOMAIN record
                 /\ record.copyright = AuthorOf(call.data)

\* A record whose license text holds two copyright lines and whose
\* descriptor names an author: copyright is the first line.
C13_Witness ==
  /\ call.pc = "pushed"
  /\ call.licensePath # None
  /\ call.data.author.kind = "string"
  /\ call.data.author.text = "Jane Doe"
  /\ call.text = <<"Copyright 2019 Other", "Copyright (c) 2020 Acme Corp">>
  /\ call.record[1].copyright = "Copyright 2019 Other"

\* C14: of several matching names exactly one is chosen, the first in
\* listing order; with no matching name no license file is chosen.
C14_FirstMatch ==
  (call.pc \in {"readFile", "pushed"})
    => IF MatchingPositions(call.files) = {}
         THEN call.licensePath = None
         ELSE call.licensePath =
                Some(Append(call.dir, <<call.files[Least(MatchingPositions(call.files))]>>))

\* A listing with two matching names after a name that does not match.
C14_Witness ==
  /\ call.pc = "readFile"
  /\ call.files = <<"index.js", "LICENSE.txt", "LICENSE">>
  /\ call.licensePath = Some(Append(call.dir, <<"LICENSE.txt">>))

\* The path an attempt is expected at: the build folder, then the option
\* without its leading "./", or the default file name.
ExpectedPath(configuredPath, defaultName) ==
  IF configuredPath = <<>> THEN <<"proj", defaultName>> ELSE <<"proj">> \o Tail(configuredPath)

LoaderFinished == loader.pc \in {"returned", "threw"}

\* C17: in serve mode the dev path is tried first and the standard path
\* only if the dev file does not exist; outside serve mode the dev path is
\* never tried; if no tried file exists the result is undefined and no
\* error is emitted.
C17_Order ==
  LET tried == loader.tried
  IN /\ (loader.pc # "called" /\ loader.serveMode)
          => /\ Len(tried) \in {1, 2}
             /\ tried[1].which = "dev"
             /\ tried[1].path =
                  ExpectedPath(loader.devConfigurationPath, "webpack.dev.config.js")
             /\ (Len(tried) = 2)
                  => /\ tried[1].exists = "no"
                     /\ tried[2].which = "standard"
                     /\ tried[2].path =
                          ExpectedPath(loader.configurationPath, "webpack.config.js")
     /\ (loader.pc # "called" /\ ~loader.serveMode)
          => /\ Len(tried) = 1
             /\ tried[1].which = "standard"
             /\ tried[1].path = ExpectedPath(loader.configurationPath, "webpack.config.js")
     /\ (LoaderFinished /\ \A i \in 1..Len(tried) : tried[i].exists = "no")
          => /\ loader.pc = "returned"
             /\ loader.result = None
             /\ loader.emitted = <<>>

\* Serve mode with the default paths: the dev file is not there and the
\* standard file was loaded.
C17_Witness ==
  /\ loader.pc = "returned"
  /\ loader.serveMode
  /\ Len(loader.tried) = 2
  /\ loader.tried[1].path = <<"proj", "webpack.dev.config.js">>
  /\ loader.tried[1].exists = "no"
  /\ loader.tried[2].path = <<"proj", "webpack.config.js">>
  /\ loader.tried[2].load = "resolved"
  /\ loader.result # None

\* C18: when an existing configuration file fails to load, exactly one
\* error is emitted, the call does not throw and returns undefined; a dev
\* file that fails to load is not followed by the standard path.
C18_LoadFailure ==
  LET tried == loader.tried
  IN \A i \in 1..Len(tried) :
       (tried[i].load = "rejected")
         => /\ tried[i].exists = "yes"
            /\ loader.pc = "returned"
            /\ loader.result = None
            /\ Len(loader.emitted) = 1
            /\ loader.emitted[1].message[2] = tried[i].path
            /\ (tried[i].which = "dev") => (Len(tried) = 1)

\* Serve mode: the dev file is there and its import failed.
C18_Witness ==
  /\ loader.pc = "returned"
  /\ loader.serveMode
  /\ Len(loader.tried) = 1
  /\ loader.tried[1].which = "dev"
  /\ loader.tried[1].exists = "yes"
  /\ loader.tried[1].load = "rejected"
  /\ Len(loader.emitted) = 1

====
